---- MODULE Spec2Model ----
(***************************************************************************)
(* Notebook DAG viewer backend: name analysis and graph inference          *)
(* (backend/parser.py), weak-component segmentation, Kahn ordering and     *)
(* the per-component execution of cells (backend/main.py).                 *)
(*                                                                         *)
(* A cell's source text is a sequence of characters.  ast.parse is the     *)
(* table Parse over the source texts of the catalogue Sources; exec/eval   *)
(* is the small interpreter Eval/ExecBody over the parsed trees.           *)
(* Python sets (adj, undirected, adj_local) have no specified iteration    *)
(* order; every loop over one takes a nondeterministically chosen order.   *)
(***************************************************************************)
EXTENDS Integers, Sequences, FiniteSets, TLC

\* ---------------------------------------------------------------- bounds
MaxCells == 3
MaxNodes == 3
MaxEdges == 3

\* ------------------------------------------------------- generic helpers
Range(s) == {s[i] : i \in 1..Len(s)}

SeqsUpTo(S, n) == UNION {[1..k -> S] : k \in 0..n}

Perms(S) == {p \in [1..Cardinality(S) -> S] : Range(p) = S}

\* ------------------------------------------------------- source texts
SrcEmpty  == <<>>
SrcSpaces == <<" ", " ">>
SrcX1     == <<"x", " ", "=", " ", "1">>
SrcXY2    == <<"x", " ", "=", " ", "y", " ", "=", " ", "2">>
SrcPrint  == <<"p", "r", "i", "n", "t", "(", "x", " ", "+", " ", "y", ")">>
SrcIncr   == <<"x", " ", "=", " ", "x", " ", "+", " ", "1">>
SrcY      == <<"y">>
SrcDiv0   == <<"1", "/", "0">>
SrcBad    == <<"x", " ", "=", " ", "(">>
SrcSetY   == <<"y", " ", "=", " ", "3", "\n", "y">>
SrcYX     == <<"y", " ", "=", " ", "x", " ", "+", " ", "1">>
SrcSay    == <<"p", "r", "i", "n", "t", "(", "1", ")", "\n", "1", "/", "0">>

Sources == {SrcEmpty, SrcSpaces, SrcX1, SrcXY2, SrcPrint, SrcIncr, SrcY,
            SrcDiv0, SrcBad, SrcSetY, SrcSay, SrcYX}

\* codes of the nodes of a hand-edited graph request
NodeCodes == {SrcSpaces, SrcXY2, SrcPrint}

Whitespace == {" ", "\n", "\t"}

RECURSIVE lstrip(_)
lstrip(s) == IF s # <<>> /\ Head(s) \in Whitespace THEN lstrip(Tail(s)) ELSE s

RECURSIVE rstrip(_)
rstrip(s) ==
    IF s # <<>> /\ s[Len(s)] \in Whitespace
    THEN rstrip(SubSeq(s, 1, Len(s) - 1)) ELSE s

strip(s) == rstrip(lstrip(s))

\* the truth value of  c and c.strip()  /  (n.get("code") or "").strip()
NonBlankAs(c) == c # <<>>
NonBlank(c) == strip(c) # <<>>

\* ------------------------------------------------------- syntax trees
Num(n)       == [op |-> "Num",   n |-> n, id |-> "",  args |-> <<>>]
Name(id)     == [op |-> "Name",  n |-> 0, id |-> id,  args |-> <<>>]
BinOp(o,l,r) == [op |-> o,       n |-> 0, id |-> "",  args |-> <<l, r>>]
Call(f, a)   == [op |-> "Call",  n |-> 0, id |-> f,   args |-> <<a>>]

Assign(ts, v) == [kind |-> "Assign", targets |-> ts,   value |-> v]
Expr(v)       == [kind |-> "Expr",   targets |-> <<>>, value |-> v]

Module(b)   == [ok |-> TRUE,  body |-> b]
SyntaxError == [ok |-> FALSE, body |-> <<>>]

\* ast.parse(code)
Parse(code) ==
    CASE strip(code) = <<>> -> Module(<<>>)
      [] code = SrcX1    -> Module(<<Assign(<<"x">>, Num(1))>>)
      [] code = SrcXY2   -> Module(<<Assign(<<"x", "y">>, Num(2))>>)
      [] code = SrcPrint ->
            Module(<<Expr(Call("print", BinOp("Add", Name("x"), Name("y"))))>>)
      [] code = SrcIncr  ->
            Module(<<Assign(<<"x">>, BinOp("Add", Name("x"), Num(1)))>>)
      [] code = SrcY     -> Module(<<Expr(Name("y"))>>)
      [] code = SrcDiv0  -> Module(<<Expr(BinOp("Div", Num(1), Num(0)))>>)
      [] code = SrcSetY  -> Module(<<Assign(<<"y">>, Num(3)), Expr(Name("y"))>>)
      [] code = SrcYX    ->
            Module(<<Assign(<<"y">>, BinOp("Add", Name("x"), Num(1)))>>)
      [] code = SrcSay   ->
            Module(<<Expr(Call("print", Num(1))),
                     Expr(BinOp("Div", Num(1), Num(0)))>>)
      [] OTHER           -> SyntaxError

\* ---------------------------------------------------- parser.py: names
RECURSIVE Loads(_)
\* NameCollector.visit_Name over an expression: the names in Load context
Loads(e) ==
    CASE e.op = "Num"  -> {}
      [] e.op = "Name" -> {e.id}
      [] e.op = "Call" -> {e.id} \cup Loads(e.args[1])
      [] OTHER         -> Loads(e.args[1]) \cup Loads(e.args[2])

\* NameCollector.visit_Assign / _collect_target
StmtDefs(st) == IF st.kind = "Assign" THEN Range(st.targets) ELSE {}

CollectDefs(body) == UNION {StmtDefs(body[i]) : i \in 1..Len(body)}

CollectUses(body) == UNION {Loads(body[i].value) : i \in 1..Len(body)}

\* analyze_cell that returns every use, bound in the cell or not
analyze_cell_RawUses(code) ==
    LET tree == Parse(code)
    IN  IF ~tree.ok
        THEN [defs |-> {}, uses |-> {}]
        ELSE [defs |-> CollectDefs(tree.body),
              uses |-> CollectUses(tree.body)]

\* analyze_cell that, on a SyntaxError, falls back to the identifiers found
\* in the text and reports them as uses
analyze_cell_TextFallback(code) ==
    LET tree == Parse(code)
    IN  IF ~tree.ok
        THEN [defs |-> {}, uses |-> Range(code) \cap {"x", "y"}]
        ELSE [defs |-> CollectDefs(tree.body),
              uses |-> CollectUses(tree.body) \ CollectDefs(tree.body)]

analyze_cell(code) ==
    LET tree == Parse(code)
    IN  IF ~tree.ok
        THEN [defs |-> {}, uses |-> {}]
        ELSE [defs |-> CollectDefs(tree.body),
              uses |-> CollectUses(tree.body) \ CollectDefs(tree.body)]

\* identifiers of the catalogue in Python's string order
NameOrder == <<"print", "x", "y">>

sorted(S) == SelectSeq(NameOrder, LAMBDA n : n \in S)

CellId(k) == "cell-" \o ToString(k)

CellLabel(k) == "Cell " \o ToString(k)

\* Filtered that drops only the empty strings
Filtered_KeepWhitespace(cells) == SelectSeq(cells, LAMBDA c : NonBlankAs(c))

Filtered(cells) == SelectSeq(cells, LAMBDA c : NonBlankAs(c) /\ NonBlank(c))

Shared(filtered, i, j) ==
    sorted(analyze_cell(filtered[i]).defs \cap analyze_cell(filtered[j]).uses)

RECURSIVE EdgeLoop_AllPairs(_, _, _)
\* EdgeLoop whose inner loop starts at the first cell instead of at i + 1
EdgeLoop_AllPairs(filtered, i, j) ==
    IF i > Len(filtered) THEN <<>>
    ELSE IF j > Len(filtered) THEN EdgeLoop_AllPairs(filtered, i + 1, 1)
    ELSE LET shared == Shared(filtered, i, j)
             rest   == EdgeLoop_AllPairs(filtered, i, j + 1)
         IN  IF shared # <<>> /\ i # j
             THEN <<[source |-> CellId(i), target |-> CellId(j),
                     labels |-> shared]>> \o rest
             ELSE rest

RECURSIVE EdgeLoop(_, _, _)
\* the double loop  for i in range(n): for j in range(i+1, n)
EdgeLoop(filtered, i, j) ==
    IF i > Len(filtered) THEN <<>>
    ELSE IF j > Len(filtered) THEN EdgeLoop(filtered, i + 1, i + 2)
    ELSE LET shared == Shared(filtered, i, j)
             rest   == EdgeLoop(filtered, i, j + 1)
         IN  IF shared # <<>>
             THEN <<[source |-> CellId(i), target |-> CellId(j),
                     labels |-> shared]>> \o rest
             ELSE rest

build_graph(cells) ==
    LET filtered == Filtered(cells)
    IN  [nodes |-> [i \in 1..Len(filtered) |->
                      [id |-> CellId(i), label |-> CellLabel(i),
                       code |-> filtered[i]]],
         edges |-> EdgeLoop(filtered, 1, 2)]

\* ------------------------------------------------- main.py: _run_cell
None   == [t |-> "NoneType", v |-> 0]
IntVal(n) == [t |-> "int", v |-> n]

\* repr(value) / str(value)
repr(val) == IF val.t = "NoneType" THEN "None" ELSE ToString(val.v)

\* traceback.format_exc()
format_exc(exc) == "Traceback (most recent call last): " \o exc \o "\n"

EmptyEnv == [n \in {} |-> None]

Bind(e, names, val) ==
    [n \in (DOMAIN e) \cup names |-> IF n \in names THEN val ELSE e[n]]

RECURSIVE Eval(_, _)
\* the interpreter on one expression: the value, the text it printed and
\* the exception it raised ("" for none)
Eval(e, ns) ==
    CASE e.op = "Num"  -> [exc |-> "", val |-> IntVal(e.n), out |-> ""]
      [] e.op = "Name" ->
            IF e.id \in DOMAIN ns
            THEN [exc |-> "", val |-> ns[e.id], out |-> ""]
            ELSE [exc |-> "NameError", val |-> None, out |-> ""]
      [] e.op = "Call" ->
            LET a == Eval(e.args[1], ns)
            IN  IF a.exc # "" THEN a
                ELSE [exc |-> "", val |-> None,
                      out |-> a.out \o repr(a.val) \o "\n"]
      [] OTHER ->
            LET l == Eval(e.args[1], ns)
                r == Eval(e.args[2], ns)
            IN  IF l.exc # "" THEN l
                ELSE IF r.exc # ""
                THEN [exc |-> r.exc, val |-> None, out |-> l.out \o r.out]
                ELSE IF l.val.t # "int" \/ r.val.t # "int"
                THEN [exc |-> "TypeError", val |-> None,
                      out |-> l.out \o r.out]
                ELSE IF e.op = "Div" /\ r.val.v = 0
                THEN [exc |-> "ZeroDivisionError", val |-> None,
                      out |-> l.out \o r.out]
                ELSE [exc |-> "", out |-> l.out \o r.out,
                      val |-> IF e.op = "Div"
                              THEN IntVal(l.val.v \div r.val.v)
                              ELSE IntVal(l.val.v + r.val.v)]

RECURSIVE ExecBody(_, _, _)
\* exec(compile(Module(body))) from statement k on; s = [env, out, exc]
ExecBody(body, k, s) ==
    IF k > Len(body) \/ s.exc # "" THEN s
    ELSE LET st == body[k]
             r  == Eval(st.value, s.env)
         IN  ExecBody(body, k + 1,
                 [env |-> IF r.exc = "" /\ st.kind = "Assign"
                          THEN Bind(s.env, Range(st.targets), r.val)
                          ELSE s.env,
                  out |-> s.out \o r.out,
                  exc |-> r.exc])

Raised(text, ns) == [ok |-> FALSE, stdout |-> text, env |-> ns]

Returned(text, ns) == [ok |-> TRUE, stdout |-> text, env |-> ns]

\* EchoValue that prints the repr of every value, None included
EchoValue_Always(val) == repr(val) \o "\n"

EchoValue(val) == IF val # None THEN repr(val) \o "\n" ELSE ""

\* _run_cell whose fault carries the trace alone
\* (raise RuntimeError(traceback.format_exc()))
_run_cell_TraceOnly(code, ns) ==
    LET tree == Parse(code)
        body == tree.body
        init == [env |-> ns, out |-> "", exc |-> ""]
    IN  IF ~tree.ok THEN Raised(format_exc("SyntaxError"), ns)
        ELSE IF body # <<>> /\ body[Len(body)].kind = "Expr"
        THEN LET pre == ExecBody(SubSeq(body, 1, Len(body) - 1), 1, init)
                 r   == Eval(body[Len(body)].value, pre.env)
             IN  IF pre.exc # ""
                 THEN Raised(format_exc(pre.exc), pre.env)
                 ELSE IF r.exc # ""
                 THEN Raised(format_exc(r.exc), pre.env)
                 ELSE Returned(pre.out \o r.out \o EchoValue(r.val), pre.env)
        ELSE LET s == ExecBody(body, 1, init)
             IN  IF s.exc # ""
                 THEN Raised(format_exc(s.exc), s.env)
                 ELSE Returned(s.out, s.env)

\* _run_cell(code, env): ok = FALSE stands for the RuntimeError raised, whose
\* text is stdout; env is the namespace as the call leaves it
_run_cell(code, ns) ==
    LET tree == Parse(code)
        body == tree.body
        init == [env |-> ns, out |-> "", exc |-> ""]
    IN  IF ~tree.ok THEN Raised(format_exc("SyntaxError"), ns)
        ELSE IF body # <<>> /\ body[Len(body)].kind = "Expr"
        THEN LET pre == ExecBody(SubSeq(body, 1, Len(body) - 1), 1, init)
                 r   == Eval(body[Len(body)].value, pre.env)
             IN  IF pre.exc # ""
                 THEN Raised(pre.out \o format_exc(pre.exc), pre.env)
                 ELSE IF r.exc # ""
                 THEN Raised(pre.out \o r.out \o format_exc(r.exc), pre.env)
                 ELSE Returned(pre.out \o r.out \o EchoValue(r.val), pre.env)
        ELSE LET s == ExecBody(body, 1, init)
             IN  IF s.exc # ""
                 THEN Raised(s.out \o format_exc(s.exc), s.env)
                 ELSE Returned(s.out, s.env)

\* ------------------------------------------------ main.py: _topo_sort
RECURSIVE Dedup(_)
Dedup(s) ==
    IF s = <<>> THEN <<>>
    ELSE LET r == Dedup(SubSeq(s, 1, Len(s) - 1))
         IN  IF s[Len(s)] \in Range(r) THEN r ELSE Append(r, s[Len(s)])

Retained(ns) == SelectSeq(ns, LAMBDA n : NonBlank(n.code))

\* node_map = {n["id"]: n for n in nodes if (n.get("code") or "").strip()}
NodeMapOf(ns) ==
    LET kept == Retained(ns)
    IN  [id \in {kept[k].id : k \in 1..Len(kept)} |->
            kept[CHOOSE k \in 1..Len(kept) :
                    /\ kept[k].id = id
                    /\ \A m \in k+1..Len(kept) : kept[m].id # id]]

\* ids = list(node_map.keys())
IdsOf(ns) == LET kept == Retained(ns)
             IN  Dedup([k \in 1..Len(kept) |-> kept[k].id])

ValidEdge(e, nm) ==
    e.source \in DOMAIN nm /\ e.target \in DOMAIN nm /\ e.source # e.target

RECURSIVE AdjLoop_CountAll(_, _, _, _)
\* AdjLoop without the "if t not in adj[s]" test: every copy of an edge counts
AdjLoop_CountAll(es, k, nm, st) ==
    IF k > Len(es) THEN st
    ELSE LET s == es[k].source
             t == es[k].target
         IN  IF ValidEdge(es[k], nm)
             THEN AdjLoop_CountAll(es, k + 1, nm,
                     [adj   |-> [st.adj EXCEPT ![s] = @ \cup {t}],
                      indeg |-> [st.indeg EXCEPT ![t] = @ + 1]])
             ELSE AdjLoop_CountAll(es, k + 1, nm, st)

RECURSIVE AdjLoop(_, _, _, _)
\* for e in edges: ... adj[s].add(t); indeg[t] += 1
AdjLoop(es, k, nm, st) ==
    IF k > Len(es) THEN st
    ELSE LET s == es[k].source
             t == es[k].target
         IN  IF ValidEdge(es[k], nm) /\ t \notin st.adj[s]
             THEN AdjLoop(es, k + 1, nm,
                     [adj   |-> [st.adj EXCEPT ![s] = @ \cup {t}],
                      indeg |-> [st.indeg EXCEPT ![t] = @ + 1]])
             ELSE AdjLoop(es, k + 1, nm, st)

AdjOf(ns, es) ==
    LET nm == NodeMapOf(ns)
    IN  AdjLoop(es, 1, nm, [adj   |-> [x \in DOMAIN nm |-> {}],
                            indeg |-> [x \in DOMAIN nm |-> 0]])

\* UndirectedOf without the reverse direction
UndirectedOf_Forward(a) == [x \in DOMAIN a |-> a[x]]

\* undirected[s].add(t); undirected[t].add(s)
UndirectedOf(a) ==
    [x \in DOMAIN a |-> a[x] \cup {y \in DOMAIN a : x \in a[y]}]

VARIABLES pc, cells, graph, nodes, edges, fromBuild,
          node_map, ids, adj, indeg, undirected,
          seen, components, i, q, comp,
          ordered_components, ci, indeg_local, adj_local, order,
          all_logs, comp_index, env, ni, executed, response,
          wf_cells, logs, wf_ran

reqVars  == <<cells, graph, wf_cells, logs, wf_ran>>
payVars  == <<nodes, edges, fromBuild>>
mapVars  == <<node_map, ids, adj, indeg, undirected>>
bfsVars  == <<seen, components, i>>
kahnVars == <<ordered_components, indeg_local, adj_local>>
runVars  == <<all_logs, comp_index, env, ni, executed, response>>

vars == <<pc, reqVars, payVars, mapVars, bfsVars, q, comp, kahnVars, ci,
          order, runVars>>

NoResponse == [ok |-> FALSE, kind |-> "none"]

Init ==
    /\ pc = "idle"
    /\ cells = <<>>
    /\ graph = [nodes |-> <<>>, edges |-> <<>>]
    /\ nodes = <<>> /\ edges = <<>> /\ fromBuild = FALSE
    /\ node_map = <<>> /\ ids = <<>>
    /\ adj = <<>> /\ indeg = <<>> /\ undirected = <<>>
    /\ seen = {} /\ components = <<>> /\ i = 1
    /\ q = <<>> /\ comp = <<>>
    /\ ordered_components = <<>> /\ ci = 0
    /\ indeg_local = <<>> /\ adj_local = <<>> /\ order = <<>>
    /\ all_logs = <<>> /\ comp_index = 0 /\ env = EmptyEnv /\ ni = 1
    /\ executed = <<>>
    /\ response = NoResponse
    /\ wf_cells = <<>> /\ logs = <<>> /\ wf_ran = <<>>

\* POST /api/graph
graph_from_cells ==
    /\ pc = "idle"
    /\ \E cs \in SeqsUpTo(Sources, MaxCells) :
          /\ cells' = cs
          /\ graph' = build_graph(cs)
    /\ pc' = "graph"
    /\ UNCHANGED <<payVars, mapVars, bfsVars, q, comp, kahnVars, ci, order,
                   runVars, wf_cells, logs, wf_ran>>

\* ---- hand-edited payloads of POST /api/run_graph
NodeIds == {CellId(k) : k \in 1..MaxNodes}

NodeLists ==
    UNION {[1..n -> NodeCodes] : n \in 0..MaxNodes}

PayloadNodes ==
    {[k \in 1..Len(cs) |-> [id |-> CellId(k), label |-> CellLabel(k),
                            code |-> cs[k]]] : cs \in NodeLists}

PayloadEdges ==
    {[k \in 1..Len(ps) |-> [source |-> ps[k][1], target |-> ps[k][2],
                            labels |-> <<>>]] :
        ps \in SeqsUpTo(NodeIds \X NodeIds, MaxEdges)}

\* run_graph entry and _topo_sort up to the component loop (lines 157, 59-81)
TopoBegin(ns, es, fb) ==
    /\ nodes' = ns /\ edges' = es /\ fromBuild' = fb
    /\ node_map' = NodeMapOf(ns)
    /\ ids' = IdsOf(ns)
    /\ adj' = AdjOf(ns, es).adj
    /\ indeg' = AdjOf(ns, es).indeg
    /\ undirected' = UndirectedOf(AdjOf(ns, es).adj)
    /\ seen' = {} /\ components' = <<>> /\ i' = 1
    /\ pc' = "segment"
    /\ UNCHANGED <<reqVars, q, comp, kahnVars, ci, order, runVars>>

\* POST /api/run_graph with a hand-edited graph
run_graph ==
    /\ pc = "idle"
    /\ \E ns \in PayloadNodes, es \in PayloadEdges : TopoBegin(ns, es, FALSE)

\* POST /api/run_graph with the graph /api/graph returned, unchanged
run_built_graph ==
    /\ pc = "graph"
    /\ TopoBegin(graph.nodes, graph.edges, TRUE)

\* ComponentSeek that takes the next start from a set of the ids
\* (for i in set(ids)), in whatever order the set yields them
ComponentSeek_AnyUnseen ==
    /\ pc = "segment"
    /\ LET unseen == {k \in 1..Len(ids) : ids[k] \notin seen}
       IN  IF unseen = {}
           THEN /\ pc' = "order" /\ ci' = 1 /\ ordered_components' = <<>>
                /\ UNCHANGED <<seen, i, q, comp>>
           ELSE \E k \in unseen :
                    /\ q' = <<ids[k]>>
                    /\ seen' = seen \cup {ids[k]}
                    /\ comp' = <<>>
                    /\ i' = k + 1
                    /\ pc' = "bfs"
                    /\ UNCHANGED <<ci, ordered_components>>
    /\ UNCHANGED <<reqVars, payVars, mapVars, components, indeg_local,
                   adj_local, order, runVars>>

\* for i in ids: if i in seen: continue; q = [i]; seen.add(i); comp = []
\* (after the last id: on to the ordering loop)
ComponentSeek ==
    /\ pc = "segment"
    /\ LET unseen == {k \in i..Len(ids) : ids[k] \notin seen}
       IN  IF unseen = {}
           THEN /\ pc' = "order" /\ ci' = 1 /\ ordered_components' = <<>>
                /\ UNCHANGED <<seen, i, q, comp>>
           ELSE LET k == CHOOSE m \in unseen : \A n \in unseen : m <= n
                IN  /\ q' = <<ids[k]>>
                    /\ seen' = seen \cup {ids[k]}
                    /\ comp' = <<>>
                    /\ i' = k + 1
                    /\ pc' = "bfs"
                    /\ UNCHANGED <<ci, ordered_components>>
    /\ UNCHANGED <<reqVars, payVars, mapVars, components, indeg_local,
                   adj_local, order, runVars>>

\* while q: u = q.pop(); comp.append(u); for v in undirected[u]: ...
BfsStep ==
    /\ pc = "bfs" /\ q # <<>>
    /\ LET u     == q[Len(q)]
           fresh == undirected[u] \ seen
       IN  /\ comp' = Append(comp, u)
           /\ seen' = seen \cup fresh
           /\ \E p \in Perms(fresh) : q' = SubSeq(q, 1, Len(q) - 1) \o p
    /\ UNCHANGED <<pc, reqVars, payVars, mapVars, components, i, kahnVars,
                   ci, order, runVars>>

\* the while loop ends: components.append(comp)
BfsDone ==
    /\ pc = "bfs" /\ q = <<>>
    /\ components' = Append(components, comp)
    /\ pc' = "segment"
    /\ UNCHANGED <<reqVars, payVars, mapVars, seen, i, q, comp, kahnVars,
                   ci, order, runVars>>

CompEdges(es, c) ==
    SelectSeq(es, LAMBDA e : e.source \in Range(c) /\ e.target \in Range(c))

\* KahnStart that seeds the queue with every node of the component
\* (q = list(comp))
KahnStart_SeedAll ==
    /\ pc = "order"
    /\ IF ci > Len(components)
       THEN /\ pc' = "run"
            /\ all_logs' = <<>> /\ comp_index' = 0
            /\ ci' = 0 /\ ni' = 1 /\ order' = <<>>
            /\ UNCHANGED <<q, comp, indeg_local, adj_local, env>>
       ELSE LET c == components[ci]
            IN  /\ comp' = c
                /\ indeg_local' = [k \in Range(c) |-> indeg[k]]
                /\ adj_local' = [k \in Range(c) |-> adj[k] \cap Range(c)]
                /\ q' = c
                /\ order' = <<>>
                /\ pc' = "kahn"
                /\ UNCHANGED <<ci, all_logs, comp_index, ni, env>>
    /\ UNCHANGED <<reqVars, payVars, mapVars, bfsVars, ordered_components,
                   executed, response>>

\* for comp in components: indeg_local, adj_local, q, order = ...
\* (after the last component: _topo_sort returns, run_graph lines 158-159)
KahnStart ==
    /\ pc = "order"
    /\ IF ci > Len(components)
       THEN /\ pc' = "run"
            /\ all_logs' = <<>> /\ comp_index' = 0
            /\ ci' = 0 /\ ni' = 1 /\ order' = <<>>
            /\ UNCHANGED <<q, comp, indeg_local, adj_local, env>>
       ELSE LET c == components[ci]
            IN  /\ comp' = c
                /\ indeg_local' = [k \in Range(c) |-> indeg[k]]
                /\ adj_local' = [k \in Range(c) |-> adj[k] \cap Range(c)]
                /\ q' = SelectSeq(c, LAMBDA k : indeg[k] = 0)
                /\ order' = <<>>
                /\ pc' = "kahn"
                /\ UNCHANGED <<ci, all_logs, comp_index, ni, env>>
    /\ UNCHANGED <<reqVars, payVars, mapVars, bfsVars, ordered_components,
                   executed, response>>

\* KahnStep that enqueues every out-neighbour, whatever its in-degree
KahnStep_NoIndegCheck ==
    /\ pc = "kahn" /\ q # <<>>
    /\ LET u    == Head(q)
           dec  == [k \in DOMAIN indeg_local |->
                      IF k \in adj_local[u] THEN indeg_local[k] - 1
                      ELSE indeg_local[k]]
           push == {v \in adj_local[u] : v \notin Range(order) \cup Range(q)}
       IN  /\ order' = Append(order, u)
           /\ indeg_local' = dec
           /\ \E p \in Perms(push) : q' = Tail(q) \o p
    /\ UNCHANGED <<pc, reqVars, payVars, mapVars, bfsVars, comp,
                   ordered_components, adj_local, ci, runVars>>

\* while q: u = q.pop(0); order.append(u); for v in adj_local[u]: ...
KahnStep ==
    /\ pc = "kahn" /\ q # <<>>
    /\ LET u    == Head(q)
           dec  == [k \in DOMAIN indeg_local |->
                      IF k \in adj_local[u] THEN indeg_local[k] - 1
                      ELSE indeg_local[k]]
           zero == {v \in adj_local[u] : dec[v] = 0}
       IN  /\ order' = Append(order, u)
           /\ indeg_local' = dec
           /\ \E p \in Perms(zero) : q' = Tail(q) \o p
    /\ UNCHANGED <<pc, reqVars, payVars, mapVars, bfsVars, comp,
                   ordered_components, adj_local, ci, runVars>>

\* KahnDone without the cycle fallback: the nodes left over are dropped
KahnDone_NoRemaining ==
    /\ pc = "kahn" /\ q = <<>>
    /\ ordered_components' =
          Append(ordered_components,
                 [order |-> order, comp_edges |-> CompEdges(edges, comp)])
    /\ ci' = ci + 1
    /\ pc' = "order"
    /\ UNCHANGED <<reqVars, payVars, mapVars, bfsVars, q, comp, indeg_local,
                   adj_local, order, runVars>>

\* KahnDone that waits for every node to be ordered instead of appending
\* the nodes a cycle leaves over
KahnDone_WaitAll ==
    /\ pc = "kahn" /\ q = <<>>
    /\ Range(order) = Range(comp)
    /\ ordered_components' =
          Append(ordered_components,
                 [order |-> order, comp_edges |-> CompEdges(edges, comp)])
    /\ ci' = ci + 1
    /\ pc' = "order"
    /\ UNCHANGED <<reqVars, payVars, mapVars, bfsVars, q, comp, indeg_local,
                   adj_local, order, runVars>>

\* KahnDone that appends the left-over nodes last to first
\* (order.extend(reversed(remaining)))
KahnDone_ReversedRemaining ==
    /\ pc = "kahn" /\ q = <<>>
    /\ LET remaining == SelectSeq(comp, LAMBDA k : k \notin Range(order))
           reversed  == [k \in 1..Len(remaining) |->
                            remaining[Len(remaining) + 1 - k]]
       IN  /\ order' = order \o reversed
           /\ ordered_components' =
                 Append(ordered_components,
                        [order |-> order \o reversed,
                         comp_edges |-> CompEdges(edges, comp)])
    /\ ci' = ci + 1
    /\ pc' = "order"
    /\ UNCHANGED <<reqVars, payVars, mapVars, bfsVars, q, comp, indeg_local,
                   adj_local, runVars>>

\* remaining = [k for k in comp if k not in order]; order.extend(remaining)
KahnDone ==
    /\ pc = "kahn" /\ q = <<>>
    /\ LET remaining == SelectSeq(comp, LAMBDA k : k \notin Range(order))
       IN  /\ order' = order \o remaining
           /\ ordered_components' =
                 Append(ordered_components,
                        [order |-> order \o remaining,
                         comp_edges |-> CompEdges(edges, comp)])
    /\ ci' = ci + 1
    /\ pc' = "order"
    /\ UNCHANGED <<reqVars, payVars, mapVars, bfsVars, q, comp, indeg_local,
                   adj_local, runVars>>

\* NextComponent with one env for the whole run (env = {} hoisted out of the loop)
NextComponent_SharedEnv ==
    /\ pc = "run" /\ ni > Len(order)
    /\ IF ci = Len(ordered_components)
       THEN /\ response' = [ok |-> TRUE, kind |-> "run_graph",
                            logs |-> all_logs]
            /\ pc' = "done"
            /\ UNCHANGED <<ci, comp_index, ni, order>>
       ELSE /\ ci' = ci + 1
            /\ order' = ordered_components[ci + 1].order
            /\ comp_index' = comp_index + 1
            /\ ni' = 1
            /\ UNCHANGED <<pc, response>>
    /\ UNCHANGED <<reqVars, payVars, mapVars, bfsVars, q, comp, kahnVars,
                   all_logs, executed, env>>

\* for order, _comp_edges in ordered_components: comp_index += 1; env = {}
\* (after the last component: return {"ok": True, "logs": all_logs})
NextComponent ==
    /\ pc = "run" /\ ni > Len(order)
    /\ IF ci = Len(ordered_components)
       THEN /\ response' = [ok |-> TRUE, kind |-> "run_graph",
                            logs |-> all_logs]
            /\ pc' = "done"
            /\ UNCHANGED <<ci, comp_index, env, ni, order>>
       ELSE /\ ci' = ci + 1
            /\ order' = ordered_components[ci + 1].order
            /\ comp_index' = comp_index + 1
            /\ env' = EmptyEnv
            /\ ni' = 1
            /\ UNCHANGED <<pc, response>>
    /\ UNCHANGED <<reqVars, payVars, mapVars, bfsVars, q, comp, kahnVars,
                   all_logs, executed>>

\* RunCell with the fault swallowed: the loop goes on to the next cell
RunCell_Continue ==
    /\ pc = "run" /\ ni <= Len(order)
    /\ LET nid == order[ni]
           r   == _run_cell(node_map[nid].code, env)
       IN  /\ executed' = Append(executed,
                  [node |-> nid, component |-> comp_index, ok |-> r.ok,
                   env |-> env])
           /\ env' = r.env
           /\ all_logs' = IF r.ok
                          THEN Append(all_logs,
                                  [node |-> nid, component |-> comp_index,
                                   stdout |-> r.stdout])
                          ELSE all_logs
           /\ ni' = ni + 1
    /\ UNCHANGED <<pc, response, reqVars, payVars, mapVars, bfsVars, q, comp,
                   kahnVars, ci, order, comp_index>>

\* RunCell with the log entry appended before the fault is looked at
RunCell_LogFirst ==
    /\ pc = "run" /\ ni <= Len(order)
    /\ LET nid  == order[ni]
           r    == _run_cell(node_map[nid].code, env)
           appended == Append(all_logs, [node |-> nid, component |-> comp_index,
                                     stdout |-> r.stdout])
       IN  /\ executed' = Append(executed,
                  [node |-> nid, component |-> comp_index, ok |-> r.ok,
                   env |-> env])
           /\ env' = r.env
           /\ all_logs' = appended
           /\ IF r.ok
              THEN ni' = ni + 1 /\ UNCHANGED <<pc, response>>
              ELSE /\ response' = [ok |-> FALSE, kind |-> "run_graph",
                                   failed_node |-> nid,
                                   component |-> comp_index,
                                   stdout |-> r.stdout, logs |-> appended]
                   /\ pc' = "done"
                   /\ UNCHANGED ni
    /\ UNCHANGED <<reqVars, payVars, mapVars, bfsVars, q, comp, kahnVars,
                   ci, order, comp_index>>

\* RunCell that puts the new log entry in front (all_logs.insert(0, ...))
RunCell_Prepend ==
    /\ pc = "run" /\ ni <= Len(order)
    /\ LET nid == order[ni]
           r   == _run_cell(node_map[nid].code, env)
       IN  /\ executed' = Append(executed,
                  [node |-> nid, component |-> comp_index, ok |-> r.ok,
                   env |-> env])
           /\ env' = r.env
           /\ IF r.ok
              THEN /\ all_logs' = <<[node |-> nid, component |-> comp_index,
                                     stdout |-> r.stdout]>> \o all_logs
                   /\ ni' = ni + 1
                   /\ UNCHANGED <<pc, response>>
              ELSE /\ response' = [ok |-> FALSE, kind |-> "run_graph",
                                   failed_node |-> nid,
                                   component |-> comp_index,
                                   stdout |-> r.stdout, logs |-> all_logs]
                   /\ pc' = "done"
                   /\ UNCHANGED <<all_logs, ni>>
    /\ UNCHANGED <<reqVars, payVars, mapVars, bfsVars, q, comp, kahnVars,
                   ci, order, comp_index>>

\* for nid in order: out = _run_cell(code, env) / except RuntimeError
RunCell ==
    /\ pc = "run" /\ ni <= Len(order)
    /\ LET nid == order[ni]
           r   == _run_cell(node_map[nid].code, env)
       IN  /\ executed' = Append(executed,
                  [node |-> nid, component |-> comp_index, ok |-> r.ok,
                   env |-> env])
           /\ env' = r.env
           /\ IF r.ok
              THEN /\ all_logs' = Append(all_logs,
                          [node |-> nid, component |-> comp_index,
                           stdout |-> r.stdout])
                   /\ ni' = ni + 1
                   /\ UNCHANGED <<pc, response>>
              ELSE /\ response' = [ok |-> FALSE, kind |-> "run_graph",
                                   failed_node |-> nid,
                                   component |-> comp_index,
                                   stdout |-> r.stdout, logs |-> all_logs]
                   /\ pc' = "done"
                   /\ UNCHANGED <<all_logs, ni>>
    /\ UNCHANGED <<reqVars, payVars, mapVars, bfsVars, q, comp, kahnVars,
                   ci, order, comp_index>>

topoVars == <<payVars, mapVars, bfsVars, q, comp, kahnVars, ci, order>>

\* POST /api/run: cells = [c for c in payload.cells if c and c.strip()];
\* env = {}; logs = []
run_workflow ==
    /\ pc = "idle"
    /\ \E cs \in SeqsUpTo(Sources, MaxCells) : wf_cells' = cs
    /\ env' = EmptyEnv
    /\ logs' = <<>>
    /\ ni' = 1
    /\ pc' = "workflow"
    /\ UNCHANGED <<cells, graph, wf_ran, topoVars, all_logs, comp_index,
                   executed, response>>

\* WorkflowCell that names the failed cell by the number of log entries
WorkflowCell_LastLogged ==
    /\ pc = "workflow" /\ ni <= Len(Filtered(wf_cells))
    /\ LET r == _run_cell(Filtered(wf_cells)[ni], env)
       IN  /\ wf_ran' = Append(wf_ran, [idx |-> ni, ok |-> r.ok, env |-> env])
           /\ env' = r.env
           /\ IF r.ok
              THEN /\ logs' = Append(logs, [cell |-> CellId(ni),
                                            stdout |-> r.stdout])
                   /\ ni' = ni + 1
                   /\ UNCHANGED <<pc, response>>
              ELSE /\ response' = [ok |-> FALSE, kind |-> "run",
                                   failed_cell |-> CellId(Len(logs)),
                                   stdout |-> r.stdout, logs |-> logs]
                   /\ pc' = "done"
                   /\ UNCHANGED <<logs, ni>>
    /\ UNCHANGED <<cells, graph, wf_cells, topoVars, all_logs, comp_index,
                   executed>>

\* for idx, code in enumerate(cells, start=1): out = _run_cell(code, env);
\* logs.append(...) / except RuntimeError: return failed_cell, stdout, logs
WorkflowCell ==
    /\ pc = "workflow" /\ ni <= Len(Filtered(wf_cells))
    /\ LET r == _run_cell(Filtered(wf_cells)[ni], env)
       IN  /\ wf_ran' = Append(wf_ran, [idx |-> ni, ok |-> r.ok, env |-> env])
           /\ env' = r.env
           /\ IF r.ok
              THEN /\ logs' = Append(logs, [cell |-> CellId(ni),
                                            stdout |-> r.stdout])
                   /\ ni' = ni + 1
                   /\ UNCHANGED <<pc, response>>
              ELSE /\ response' = [ok |-> FALSE, kind |-> "run",
                                   failed_cell |-> CellId(Len(logs) + 1),
                                   stdout |-> r.stdout, logs |-> logs]
                   /\ pc' = "done"
                   /\ UNCHANGED <<logs, ni>>
    /\ UNCHANGED <<cells, graph, wf_cells, topoVars, all_logs, comp_index,
                   executed>>

\* the loop ends: return {"ok": True, "logs": logs}
WorkflowDone ==
    /\ pc = "workflow" /\ ni > Len(Filtered(wf_cells))
    /\ response' = [ok |-> TRUE, kind |-> "run", logs |-> logs]
    /\ pc' = "done"
    /\ UNCHANGED <<reqVars, topoVars, all_logs, comp_index, env, ni,
                   executed>>

Next ==
    \/ graph_from_cells
    \/ run_graph
    \/ run_built_graph
    \/ ComponentSeek
    \/ BfsStep
    \/ BfsDone
    \/ KahnStart
    \/ KahnStep
    \/ KahnDone
    \/ NextComponent
    \/ RunCell
    \/ run_workflow
    \/ WorkflowCell
    \/ WorkflowDone

Spec == Init /\ [][Next]_vars

\* ---- _topo_sort on its own: every call _topo_sort(nodes, edges), from its
\* entry to its return.  It reads of a node only its id and whether its code
\* is blank.
TopoCodes == {SrcSpaces, SrcXY2}

TopoNodes ==
    {[k \in 1..Len(cs) |-> [id |-> CellId(k), label |-> CellLabel(k),
                            code |-> cs[k]]] :
        cs \in UNION {[1..n -> TopoCodes] : n \in 0..MaxNodes}}

TopoInit ==
    /\ pc = "segment"
    /\ cells = <<>>
    /\ graph = [nodes |-> <<>>, edges |-> <<>>]
    /\ nodes \in TopoNodes /\ edges \in PayloadEdges /\ fromBuild = FALSE
    /\ node_map = NodeMapOf(nodes)
    /\ ids = IdsOf(nodes)
    /\ adj = AdjOf(nodes, edges).adj
    /\ indeg = AdjOf(nodes, edges).indeg
    /\ undirected = UndirectedOf(AdjOf(nodes, edges).adj)
    /\ seen = {} /\ components = <<>> /\ i = 1
    /\ q = <<>> /\ comp = <<>>
    /\ ordered_components = <<>> /\ ci = 0
    /\ indeg_local = <<>> /\ adj_local = <<>> /\ order = <<>>
    /\ all_logs = <<>> /\ comp_index = 0 /\ env = EmptyEnv /\ ni = 1
    /\ executed = <<>>
    /\ response = NoResponse
    /\ wf_cells = <<>> /\ logs = <<>> /\ wf_ran = <<>>

TopoNext ==
    \/ ComponentSeek
    \/ BfsStep
    \/ BfsDone
    \/ KahnStart
    \/ KahnStep
    \/ KahnDone

\* the interpreter runs the call to its end (single-threaded, synchronous)
TopoSpec == TopoInit /\ [][TopoNext]_vars /\ WF_vars(TopoNext)

\* ============================================================ properties
\* ---- reference notions, computed from the request alone
IsBlank(c) == \A k \in 1..Len(c) : c[k] \in Whitespace

RetainedIds == {nodes[k].id : k \in {m \in 1..Len(nodes) : ~IsBlank(nodes[m].code)}}

ValidPairs ==
    {p \in RetainedIds \X RetainedIds :
        /\ p[1] # p[2]
        /\ \E k \in 1..Len(edges) :
              edges[k].source = p[1] /\ edges[k].target = p[2]}

RECURSIVE ReachFrom(_, _, _)
\* the ids reached from the set S by at most n steps of the relation R
ReachFrom(R, S, n) ==
    IF n = 0 THEN S
    ELSE ReachFrom(R, S \cup {p[2] : p \in {r \in R : r[1] \in S}}, n - 1)

\* no directed cycle: no edge's source is reached from its target
Acyclic(R) == \A p \in R : p[1] \notin ReachFrom(R, {p[2]}, Cardinality(R))

Symmetric(R) == R \cup {<<p[2], p[1]>> : p \in R}

\* joined by a path of valid edges taken as undirected
Connected(R, a, b) == b \in ReachFrom(Symmetric(R), {a}, Cardinality(R))

Before(s, a, b) == \E m, n \in 1..Len(s) : m < n /\ s[m] = a /\ s[n] = b

InternalPairs(c) ==
    {p \in ValidPairs : p[1] \in Range(components[c]) /\ p[2] \in Range(components[c])}

ComponentOf(id) == CHOOSE c \in 1..Len(components) : id \in Range(components[c])

RECURSIVE Flatten(_)
Flatten(ocs) == IF ocs = <<>> THEN <<>> ELSE Head(ocs).order \o Flatten(Tail(ocs))

Faulted == \E k \in 1..Len(executed) : ~executed[k].ok

CodeOf(id) == node_map[id].code

Segmented == pc \in {"order", "kahn", "run"} \/ (pc = "done" /\ response.kind = "run_graph")

\* C1: in a graph-driven run, once a cell execution has faulted no further
\* cell is executed: the list of executions never grows again and the run
\* is over.
C1_NoCellAfterFault == [][Faulted => (executed' = executed /\ pc' = "done")]_vars

\* a cell faulted while cells of its component and a later component were
\* still to run
C1_Witness ==
    /\ Faulted /\ pc = "done"
    /\ ni < Len(order)
    /\ ci < Len(ordered_components)

\* C2: when a graph-driven run fails, the result has ok = false, failed_node
\* the faulting cell, component the index of that cell's component, stdout
\* the fault text, and logs exactly the entries of the cells that completed
\* before it, in execution order, without the faulting cell.
C2_FailureResult ==
    Faulted =>
        LET n == Len(executed)
            f == executed[n]
        IN  /\ pc = "done" /\ response.kind = "run_graph" /\ ~response.ok
            /\ response.failed_node = f.node
            /\ response.failed_node = Flatten(ordered_components)[n]
            /\ response.component = ComponentOf(f.node)
            /\ ~_run_cell(CodeOf(f.node), f.env).ok
            /\ response.stdout = _run_cell(CodeOf(f.node), f.env).stdout
            /\ Len(response.logs) = n - 1
            /\ \A k \in 1..n-1 :
                  /\ executed[k].ok
                  /\ response.logs[k] =
                        [node      |-> Flatten(ordered_components)[k],
                         component |-> ComponentOf(executed[k].node),
                         stdout    |->
                            _run_cell(CodeOf(executed[k].node),
                                      executed[k].env).stdout]

\* a run failed in its second component after some cells had succeeded
C2_Witness ==
    /\ Faulted /\ pc = "done"
    /\ response.component = 2
    /\ Len(response.logs) >= 1

\* C3: every component runs against its own namespace, empty when its first
\* cell starts; a cell sees exactly the bindings left by the cells of its
\* own component that ran before it, and no name bound in another component.
C3_NamespacePerComponent ==
    \A k \in 1..Len(executed) :
        LET e     == executed[k]
            first == k = 1 \/ executed[k-1].component # e.component
            mine  == {m \in 1..k-1 : executed[m].component = e.component}
        IN  /\ e.component = ComponentOf(e.node)
            /\ first => e.env = EmptyEnv
            /\ ~first =>
                  e.env = _run_cell(CodeOf(executed[k-1].node),
                                    executed[k-1].env).env
            /\ DOMAIN e.env \subseteq
                  UNION {analyze_cell(CodeOf(executed[m].node)).defs : m \in mine}

\* a cell of the second component started after the first component had
\* bound names, and some cell saw a binding left by its own component
C3_Witness ==
    \E k, m \in 1..Len(executed) :
        /\ executed[k].component = 2
        /\ executed[m].component = 1 /\ DOMAIN executed[m].env # {}

\* C4: in a component whose valid internal edges have no directed cycle,
\* every internal edge u -> v has u strictly before v in the computed order.
C4_AcyclicOrderRespectsEdges ==
    \A c \in 1..Len(ordered_components) :
        Acyclic(InternalPairs(c)) =>
            \A p \in InternalPairs(c) :
                /\ Before(ordered_components[c].order, p[1], p[2])
                /\ ~Before(ordered_components[c].order, p[2], p[1])

\* an acyclic component of three nodes was ordered differently from its
\* discovery order
C4_Witness ==
    \E c \in 1..Len(ordered_components) :
        /\ Acyclic(InternalPairs(c))
        /\ Cardinality(InternalPairs(c)) >= 2
        /\ Len(components[c]) = 3
        /\ ordered_components[c].order # components[c]

\* C5: the computed order of every component, cyclic or not, is a
\* permutation of exactly that component's ids: no duplicate, no omission,
\* no id of another component.
C5_OrderIsPermutation ==
    \A c \in 1..Len(ordered_components) :
        LET o == ordered_components[c].order
        IN  /\ Len(o) = Len(components[c])
            /\ Range(o) = Range(components[c])
            /\ \A m, n \in 1..Len(o) : o[m] = o[n] => m = n
            /\ \A d \in 1..Len(components) :
                  d # c => Range(o) \cap Range(components[d]) = {}

\* a component with a directed cycle and a node outside the cycle was ordered
C5_Witness ==
    \E c \in 1..Len(ordered_components) :
        /\ ~Acyclic(InternalPairs(c))
        /\ Len(ordered_components[c].order) = 3

\* C6: the components are exactly the weakly connected components of the
\* filtered graph: every retained id is in exactly one component, and two
\* ids share a component iff an undirected path of valid edges joins them.
C6_WeakComponents ==
    Segmented =>
        LET valid == ValidPairs IN
        /\ UNION {Range(components[c]) : c \in 1..Len(components)} = RetainedIds
        /\ \A c \in 1..Len(components) :
              /\ components[c] # <<>>
              /\ \A m, n \in 1..Len(components[c]) :
                    components[c][m] = components[c][n] => m = n
        /\ \A c, d \in 1..Len(components) :
              c # d => Range(components[c]) \cap Range(components[d]) = {}
        /\ \A a, b \in RetainedIds :
              (\E c \in 1..Len(components) :
                    a \in Range(components[c]) /\ b \in Range(components[c]))
              <=> Connected(valid, a, b)

\* two components were found, one of them joined only by an edge that
\* points at its first-discovered node
C6_Witness ==
    /\ Segmented
    /\ Len(components) = 2
    /\ \E c \in 1..Len(components) :
          /\ Len(components[c]) = 2
          /\ <<components[c][2], components[c][1]>> \in ValidPairs
          /\ <<components[c][1], components[c][2]>> \notin ValidPairs

\* ---- reference notions for build_graph
ExpectedId == <<"cell-1", "cell-2", "cell-3", "cell-4", "cell-5">>

ExpectedLabel == <<"Cell 1", "Cell 2", "Cell 3", "Cell 4", "Cell 5">>

NonBlankIdx == {k \in 1..Len(cells) : ~IsBlank(cells[k])}

\* the position in cells of the k-th non-blank entry
KthNonBlank(k) ==
    CHOOSE m \in NonBlankIdx : Cardinality({n \in NonBlankIdx : n <= m}) = k

NodeCount == Cardinality(NonBlankIdx)

\* names a cell binds / reads, read off its syntax tree
DefsAt(k) == CollectDefs(Parse(cells[KthNonBlank(k)]).body)

UsesAt(k) == CollectUses(Parse(cells[KthNonBlank(k)]).body)

Carried(a, b) == DefsAt(a) \cap (UsesAt(b) \ DefsAt(b))

NameRank(n) == CHOOSE r \in 1..Len(NameOrder) : NameOrder[r] = n

\* C7: build_graph returns one node per non-blank entry and none for blank
\* ones; the k-th non-blank entry becomes the node with id "cell-k", label
\* "Cell k" and that entry as code.
C7_NodesAreNonBlankCells ==
    /\ Len(graph.nodes) = NodeCount
    /\ \A k \in 1..Len(graph.nodes) :
          graph.nodes[k] = [id    |-> ExpectedId[k],
                            label |-> ExpectedLabel[k],
                            code  |-> cells[KthNonBlank(k)]]

\* a graph was built from a list with a blank entry between non-blank ones
C7_Witness ==
    /\ pc = "graph"
    /\ Len(cells) = 3
    /\ ~IsBlank(cells[1]) /\ cells[2] = SrcSpaces /\ ~IsBlank(cells[3])
    /\ Len(graph.nodes) = 2

\* C8: there is an edge i -> j exactly when i < j in the filtered sequence
\* and defs(i) /\ (uses(j) - defs(j)) is non-empty; there is one such edge
\* and its labels are that intersection in sorted order.
C8_EdgesAreCarriedNames ==
    /\ \A a, b \in 1..NodeCount :
          (\E k \in 1..Len(graph.edges) :
                /\ graph.edges[k].source = ExpectedId[a]
                /\ graph.edges[k].target = ExpectedId[b])
          <=> (a < b /\ Carried(a, b) # {})
    /\ \A k \in 1..Len(graph.edges) :
          LET e == graph.edges[k]
          IN  /\ \E a, b \in 1..NodeCount :
                    /\ e.source = ExpectedId[a] /\ e.target = ExpectedId[b]
                    /\ Range(e.labels) = Carried(a, b)
              /\ \A m, n \in 1..Len(e.labels) :
                    m < n => NameRank(e.labels[m]) < NameRank(e.labels[n])
              /\ \A m \in 1..Len(graph.edges) :
                    (graph.edges[m].source = e.source
                     /\ graph.edges[m].target = e.target) => m = k

\* an edge carries two names, and a cell that reads and binds a name an
\* earlier cell defines has no incoming edge
C8_Witness ==
    /\ pc = "graph"
    /\ \E k \in 1..Len(graph.edges) : Len(graph.edges[k].labels) = 2
    /\ \E a, b \in 1..NodeCount :
          /\ a < b
          /\ DefsAt(a) \cap UsesAt(b) # {}
          /\ \A k \in 1..Len(graph.edges) : graph.edges[k].target # ExpectedId[b]

\* C9: every edge goes from a cell to a strictly later cell of the filtered
\* sequence: source and target differ, both are ids of returned nodes, and
\* the source comes first.
C9_EdgesPointForward ==
    \A k \in 1..Len(graph.edges) :
        LET e == graph.edges[k]
        IN  /\ e.source # e.target
            /\ \E a, b \in 1..Len(graph.nodes) :
                  /\ graph.nodes[a].id = e.source
                  /\ graph.nodes[b].id = e.target
                  /\ a < b

\* a later cell defines a name an earlier cell reads, and no edge enters
\* the earlier cell
C9_Witness ==
    /\ pc = "graph"
    /\ \E a, b \in 1..NodeCount :
          /\ a < b
          /\ DefsAt(b) \cap (UsesAt(a) \ DefsAt(a)) # {}
          /\ \A k \in 1..Len(graph.edges) : graph.edges[k].target # ExpectedId[a]

\* C10: _topo_sort terminates on every input: once entered it returns, with
\* one full order per component.
C10_TopoSortTerminates ==
    (pc = "segment") ~>
        (/\ pc = "run"
         /\ Len(ordered_components) = Len(components)
         /\ Range(Flatten(ordered_components)) = RetainedIds)

\* _topo_sort returned for a graph with a directed cycle and a self-edge
C10_Witness ==
    /\ pc = "run"
    /\ \E c \in 1..Len(components) : ~Acyclic(InternalPairs(c))
    /\ \E k \in 1..Len(edges) : edges[k].source = edges[k].target

\* ---- reference notions for the linear run
\* the k-th non-blank entry of the payload of /api/run
WfIdx == {k \in 1..Len(wf_cells) : ~IsBlank(wf_cells[k])}

WfCell(k) ==
    wf_cells[CHOOSE m \in WfIdx : Cardinality({n \in WfIdx : n <= m}) = k]

WfDone == pc = "done" /\ response.kind = "run"

\* C11: the linear run executes the non-blank cells in the given order
\* against one shared namespace; on the first fault it stops and reports
\* ok = false, failed_cell = "cell-k" for the k-th cell of the filtered
\* sequence, the one that faulted, and logs of exactly the k-1 earlier cells;
\* without a fault it reports ok = true and one log entry per non-blank cell.
C11_LinearRun ==
    /\ \A k \in 1..Len(wf_ran) :
          /\ wf_ran[k].idx = k /\ k <= Cardinality(WfIdx)
          /\ wf_ran[k].env =
                IF k = 1 THEN EmptyEnv
                ELSE _run_cell(WfCell(k - 1), wf_ran[k-1].env).env
          /\ wf_ran[k].ok = _run_cell(WfCell(k), wf_ran[k].env).ok
          /\ ~wf_ran[k].ok => (k = Len(wf_ran) /\ WfDone /\ ~response.ok)
    /\ WfDone =>
          LET n == Len(wf_ran)
              good == IF response.ok THEN n ELSE n - 1
          IN  /\ response.ok <=> (\A k \in 1..n : wf_ran[k].ok)
              /\ response.ok => n = Cardinality(WfIdx)
              /\ ~response.ok =>
                    /\ response.failed_cell = ExpectedId[n]
                    /\ response.stdout =
                          _run_cell(WfCell(n), wf_ran[n].env).stdout
              /\ Len(response.logs) = good
              /\ \A k \in 1..good :
                    response.logs[k] =
                       [cell   |-> ExpectedId[k],
                        stdout |-> _run_cell(WfCell(k), wf_ran[k].env).stdout]

\* a linear run over a list that starts with a blank entry failed at its
\* second retained cell, after the first had succeeded
C11_Witness ==
    /\ WfDone /\ ~response.ok
    /\ response.failed_cell = "cell-2"
    /\ Len(response.logs) = 1
    /\ Len(wf_cells) = 3 /\ IsBlank(wf_cells[1])

IsPrefix(a, b) == Len(a) <= Len(b) /\ \A k \in 1..Len(a) : a[k] = b[k]

GraphRunning == pc = "run" \/ (pc = "done" /\ response.kind = "run_graph")

\* the log as the concatenated component orders predict it
LogFollowsOrders ==
    LET flat == Flatten(ordered_components)
    IN  /\ Len(all_logs) <= Len(flat)
        /\ Len(all_logs) = Cardinality({k \in 1..Len(executed) : executed[k].ok})
        /\ \A k \in 1..Len(all_logs) :
              /\ all_logs[k].node = flat[k]
              /\ all_logs[k].component = ComponentOf(flat[k])
        /\ (pc = "done" /\ response.ok) =>
              /\ response.logs = all_logs
              /\ Len(all_logs) = Cardinality(RetainedIds)
              /\ {all_logs[k].node : k \in 1..Len(all_logs)} = RetainedIds

\* C12: at every point of a graph-driven run the log is a prefix of the
\* components' computed orders concatenated in discovery order; a step only
\* appends to it, at most one entry, tagged with its component's index; a
\* successful run ends with exactly one entry per non-blank node id.
C12_LogIsAppendOnlyPrefix ==
    [][/\ pc = "run" => (IsPrefix(all_logs, all_logs')
                         /\ Len(all_logs') <= Len(all_logs) + 1)
       /\ GraphRunning' => LogFollowsOrders']_vars

\* a run over two components ended well with three log entries, in an order
\* that is not the order of the node list
C12_Witness ==
    /\ pc = "done" /\ response.kind = "run_graph" /\ response.ok
    /\ Len(all_logs) = 3
    /\ all_logs[1].component # all_logs[3].component
    /\ Flatten(ordered_components) # ids

\* ---- the edge list without its malformed entries
AllIds == {nodes[k].id : k \in 1..Len(nodes)}

Dangling(e) == e.source \notin AllIds \/ e.target \notin AllIds
TouchesBlank(e) ==
    \E k \in 1..Len(nodes) :
        IsBlank(nodes[k].code) /\ nodes[k].id \in {e.source, e.target}
SelfEdge(e)   == e.source = e.target
Repeated(k)   == \E m \in 1..(k - 1) : /\ edges[m].source = edges[k].source
                                       /\ edges[m].target = edges[k].target

CleanIdx == {k \in 1..Len(edges) :
                /\ ~Dangling(edges[k]) /\ ~TouchesBlank(edges[k])
                /\ ~SelfEdge(edges[k]) /\ ~Repeated(k)}

RECURSIVE CleanFrom(_)
CleanFrom(k) ==
    IF k > Len(edges) THEN <<>>
    ELSE IF k \in CleanIdx THEN <<edges[k]>> \o CleanFrom(k + 1)
         ELSE CleanFrom(k + 1)

CleanEdges == CleanFrom(1)

\* C13: malformed edges are dropped, not rejected: everything the component
\* and ordering loops read (node map, id list, adjacency, in-degrees,
\* undirected neighbours) is what it is for the request with the dangling
\* edges, the edges touching blank nodes, the self-edges and the repeated
\* copies of a directed pair removed, so the components and orders that can
\* be produced are the same; an in-degree counts distinct sources only.
C13_MalformedEdgesDropped ==
    LET clean == AdjOf(nodes, CleanEdges)
    IN  /\ adj = clean.adj
        /\ indeg = clean.indeg
        /\ undirected = UndirectedOf(clean.adj)
        /\ node_map = NodeMapOf(nodes) /\ ids = IdsOf(nodes)
        /\ \A t \in DOMAIN indeg :
              indeg[t] = Cardinality({p \in ValidPairs : p[2] = t})
        /\ pc = "kahn" =>
              \A k \in Range(comp) :
                  /\ adj_local[k] = clean.adj[k] \cap Range(comp)
                  /\ indeg_local[k] <= clean.indeg[k]

\* a finished sort of a request with a doubled edge and an edge from a blank
\* node: one in-degree for the doubled edge, the blank node in no component
C13_Witness ==
    /\ pc = "run"
    /\ Len(edges) = 3 /\ Len(CleanEdges) = 1
    /\ \E k \in 2..3 : Repeated(k)
    /\ \E k \in 1..3 : TouchesBlank(edges[k]) /\ ~SelfEdge(edges[k])
    /\ \E t \in DOMAIN indeg : indeg[t] = 1
    /\ Len(ordered_components) = 1

\* ---- what parsing and running a cell's statements raises and prints,
\* whatever _run_cell then makes of it
CellRun(code, ns) ==
    IF ~Parse(code).ok THEN [exc |-> "SyntaxError", out |-> ""]
    ELSE LET s == ExecBody(Parse(code).body, 1,
                           [env |-> ns, out |-> "", exc |-> ""])
         IN  [exc |-> s.exc, out |-> s.out]

FaultHandled(code, entry, isLast) ==
    LET c == CellRun(code, entry.env)
    IN  /\ entry.ok <=> c.exc = ""
        /\ c.exc # "" =>
              /\ isLast /\ pc = "done"
              /\ ~response.ok
              /\ response.stdout = c.out \o format_exc(c.exc)

LastIsExpr(code) ==
    LET body == Parse(code).body
    IN  body # <<>> /\ body[Len(body)].kind = "Expr"

\* the namespace after the statements before the last one
AfterPrefix(code, ns) ==
    LET body == Parse(code).body
    IN  ExecBody(SubSeq(body, 1, Len(body) - 1), 1,
                 [env |-> ns, out |-> "", exc |-> ""]).env

LastValue(code, ns) ==
    LET body == Parse(code).body
    IN  Eval(body[Len(body)].value, AfterPrefix(code, ns)).val

ExpectedEcho(code, ns) ==
    IF LastIsExpr(code) /\ LastValue(code, ns) # None
    THEN repr(LastValue(code, ns)) \o "\n"
    ELSE ""

ExpectedStdout(code, ns) == CellRun(code, ns).out \o ExpectedEcho(code, ns)

\* C15: a completed cell's captured output is what its statements printed,
\* followed by the repr of its last statement's value exactly when that
\* statement is a bare expression whose value, computed in the namespace
\* the earlier statements left, is not None; a cell that ends otherwise, or
\* has no statement, echoes nothing.
C15_LastExpressionEcho ==
    /\ \A k \in 1..Len(all_logs) :
          /\ all_logs[k].node = executed[k].node
          /\ all_logs[k].stdout =
                ExpectedStdout(CodeOf(executed[k].node), executed[k].env)
    /\ \A k \in 1..Len(logs) :
          logs[k].stdout = ExpectedStdout(WfCell(wf_ran[k].idx), wf_ran[k].env)

\* a linear run of "x = y = 2", "print(x + y)" and "y = 3; y": no echo for
\* the assignment, none for the None of print, "3" for the last expression
C15_Witness ==
    /\ WfDone /\ response.ok
    /\ wf_cells = <<SrcXY2, SrcPrint, SrcSetY>>
    /\ Len(logs) = 3
    /\ logs[1].stdout = ""
    /\ logs[2].stdout = "4\n"
    /\ logs[3].stdout = "3\n"

\* ---- cells that do not parse
Unparsable == {k \in 1..NodeCount : ~Parse(cells[KthNonBlank(k)]).ok}

\* the request with every unparsable cell replaced by "1/0", a cell that
\* parses and neither binds nor reads a name
Defused ==
    [m \in 1..Len(cells) |->
        IF ~IsBlank(cells[m]) /\ ~Parse(cells[m]).ok THEN SrcDiv0
        ELSE cells[m]]

Residual == Range(comp) \ Range(order)

\* C17: when Kahn's queue empties, the nodes not yet ordered are exactly
\* those whose in-degree is still positive; the finished order is the
\* queue's order followed by them, so each comes after every dequeued node,
\* and among themselves they stand as in the component's node list.
C17_ResidualNodesAppendedInListOrder ==
    [][(pc = "kahn" /\ q = <<>> /\ pc' = "order") =>
        LET res == ordered_components'[Len(ordered_components')].order
        IN  /\ IsPrefix(order, res)
            /\ Len(res) = Len(comp) /\ Range(res) = Range(comp)
            /\ \A k \in Range(comp) : k \in Residual <=> indeg_local[k] > 0
            /\ \A d \in Range(order), r \in Residual : Before(res, d, r)
            /\ \A a, b \in Residual : Before(res, a, b) <=> Before(comp, a, b)
      ]_vars

\* a component of three was ordered with one node from the queue and the
\* two nodes of a cycle left over
C17_Witness ==
    /\ pc = "order" /\ ci = 2
    /\ Len(order) = 3
    /\ indeg_local[order[1]] = 0
    /\ indeg_local[order[2]] > 0 /\ indeg_local[order[3]] > 0
    /\ order[1] = "cell-3"

NoRepeat(s) == \A m, n \in 1..Len(s) : s[m] = s[n] => m = n

\* the valid edges with both ends in the component being ordered
CompPairs == {p \in ValidPairs : p[1] \in Range(comp) /\ p[2] \in Range(comp)}

\* C19: while a component is ordered no in-degree counter is negative and
\* no node is put on the queue twice (the dequeued nodes followed by the
\* queue never repeat a node); when the loop ends, every valid edge of the
\* component whose target was dequeued has its source dequeued earlier, and
\* an edge u -> v has v before u in the finished order only if neither u
\* nor v was dequeued.
C19_OnlyResidualEdgesGoBackward ==
    [][/\ pc' = "kahn" =>
             /\ \A k \in DOMAIN indeg_local' : indeg_local'[k] >= 0
             /\ NoRepeat(order' \o q')
             /\ Range(order' \o q') \subseteq Range(comp')
       /\ (pc = "kahn" /\ q = <<>> /\ pc' = "order") =>
             LET res == ordered_components'[Len(ordered_components')].order
             IN  \A p \in CompPairs :
                    /\ p[2] \in Range(order) =>
                          (p[1] \in Range(order) /\ Before(order, p[1], p[2]))
                    /\ Before(res, p[2], p[1]) =>
                          (p[1] \in Residual /\ p[2] \in Residual)
      ]_vars

\* cell-3 -> cell-1 and the cycle cell-1 <-> cell-2: cell-3 was dequeued,
\* the cycle was left over, and the edge cell-2 -> cell-1 goes backward
C19_Witness ==
    /\ pc = "order" /\ ci = 2
    /\ order = <<"cell-3", "cell-1", "cell-2">>
    /\ {<<"cell-3", "cell-1">>, <<"cell-1", "cell-2">>, <<"cell-2", "cell-1">>}
          = ValidPairs
    /\ indeg_local["cell-1"] = 1 /\ indeg_local["cell-2"] = 1

RanWellBefore(id, k) ==
    \E m \in 1..(k - 1) : executed[m].node = id /\ executed[m].ok

\* C18: when the graph build_graph returned is run unchanged, every edge has
\* both ends in one component, a cell is executed only after the source of
\* each of its incoming edges has completed in the same run, and Kahn's
\* loop orders every node of every component (no node is left over).
C18_BuiltGraphRunsInDependencyOrder ==
    fromBuild =>
        /\ (nodes = graph.nodes /\ edges = graph.edges)
        /\ Segmented =>
              \A k \in 1..Len(edges) :
                  /\ edges[k].source \in RetainedIds
                  /\ edges[k].target \in RetainedIds
                  /\ ComponentOf(edges[k].source) = ComponentOf(edges[k].target)
        /\ \A k \in 1..Len(executed), m \in 1..Len(edges) :
              edges[m].target = executed[k].node =>
                  /\ RanWellBefore(edges[m].source, k)
                  /\ \E n \in 1..(k - 1) :
                        /\ executed[n].node = edges[m].source
                        /\ executed[n].component = executed[k].component
        /\ (pc = "kahn" /\ q = <<>>) => Range(order) = Range(comp)

\* the graph built from "x = 1", "y = x + 1", "print(x + y)" was run to its
\* end: a chain of three with the edge cell-1 -> cell-3 across it
C18_Witness ==
    /\ fromBuild /\ pc = "done" /\ response.ok
    /\ cells = <<SrcX1, SrcYX, SrcPrint>>
    /\ Len(edges) = 3
    /\ Len(executed) = 3 /\ executed[3].node = "cell-3"

\* ---- the run that iterates every neighbour set in the order of the node
\* list: one of the orders a set may be iterated in
IdRank(id) == CHOOSE k \in 1..Len(ids) : ids[k] = id

Ascending(S) ==
    CHOOSE p \in Perms(S) :
        \A m, n \in 1..Len(p) : m < n => IdRank(p[m]) < IdRank(p[n])

RECURSIVE TraverseRef(_, _, _)
TraverseRef(stack, sn, c) ==
    IF stack = <<>> THEN [comp |-> c, seen |-> sn]
    ELSE LET u     == stack[Len(stack)]
             fresh == undirected[u] \ sn
         IN  TraverseRef(SubSeq(stack, 1, Len(stack) - 1) \o Ascending(fresh),
                         sn \cup fresh, Append(c, u))

RECURSIVE ComponentsFrom(_, _)
ComponentsFrom(k, sn) ==
    IF k > Len(ids) THEN <<>>
    ELSE IF ids[k] \in sn THEN ComponentsFrom(k + 1, sn)
    ELSE LET t == TraverseRef(<<ids[k]>>, sn \cup {ids[k]}, <<>>)
         IN  <<t.comp>> \o ComponentsFrom(k + 1, t.seen)

ComponentsRef == ComponentsFrom(1, {})

RECURSIVE KahnRef(_, _, _, _)
KahnRef(queue, deg, ord, c) ==
    IF queue = <<>>
    THEN ord \o SelectSeq(c, LAMBDA k : k \notin Range(ord))
    ELSE LET u    == Head(queue)
             out  == adj[u] \cap Range(c)
             dec  == [k \in DOMAIN deg |->
                        IF k \in out THEN deg[k] - 1 ELSE deg[k]]
             zero == {v \in out : dec[v] = 0}
         IN  KahnRef(Tail(queue) \o Ascending(zero), dec, Append(ord, u), c)

OrderRef(c) ==
    KahnRef(SelectSeq(c, LAMBDA k : indeg[k] = 0),
            [k \in Range(c) |-> indeg[k]], <<>>, c)

\* ---- the components as the request alone fixes them
Leaders ==
    {k \in 1..Len(ids) :
        \A m \in 1..(k - 1) : ~Connected(ValidPairs, ids[m], ids[k])}

Leader(c) ==
    CHOOSE k \in Leaders : Cardinality({m \in Leaders : m <= k}) = c

ClassOf(id) == {b \in RetainedIds : Connected(ValidPairs, id, b)}

\* C20 as stated: the component lists and the per-component orders are
\* fixed by the nodes and edges alone, whatever order the neighbour sets
\* are iterated in -- so they are those of the run that iterates every set
\* in node-list order.
C20_OutcomeFixedByInput ==
    pc = "run" =>
        /\ components = ComponentsRef
        /\ Len(ordered_components) = Len(ComponentsRef)
        /\ \A c \in 1..Len(ordered_components) :
              ordered_components[c].order = OrderRef(ComponentsRef[c])

\* C20 amended: the nodes and edges alone fix how many components there
\* are, which ids each holds, the order in which the components are
\* discovered and the first id of each component list; every computed order
\* holds exactly the ids of its component.
C20_ComponentsFixedByInput ==
    /\ pc \in {"order", "kahn", "run"} =>
          /\ Len(components) = Cardinality(Leaders)
          /\ \A c \in 1..Len(components) :
                /\ components[c][1] = ids[Leader(c)]
                /\ Range(components[c]) = ClassOf(ids[Leader(c)])
                /\ Len(components[c]) = Cardinality(ClassOf(ids[Leader(c)]))
    /\ pc = "run" =>
          /\ Len(ordered_components) = Len(components)
          /\ \A c \in 1..Len(ordered_components) :
                Range(ordered_components[c].order) = Range(components[c])

\* a finished sort whose one component has the ids the request fixes, in
\* another order than the node-list-order run gives
C20_Witness ==
    /\ pc = "run"
    /\ Len(components) = 1 /\ Len(components[1]) = 3
    /\ components # ComponentsRef
    /\ ordered_components[1].order # OrderRef(ComponentsRef[1])
====
